---- MODULE Spec2Model ----
(***************************************************************************)
(* Verification model of the training / evaluation toolkit:               *)
(*   - the training engine as the fine-tuning and adapter-pretraining      *)
(*     entry points call it (gradient accumulation, early stopping),       *)
(*   - the CSV preprocessing pipelines of the entry points,                *)
(*   - the checkpoint evaluation workflow and the tracking-run lifecycle,  *)
(*   - the legacy fine-tuning script and its simplified training loop.     *)
(***************************************************************************)
EXTENDS Integers, Sequences, FiniteSets, TLC

VARIABLES
    \* ---- training engine, called by run_finetuning / run_adapter_pretraining
    twf,            \* entry point that calls train
    targs,          \* the run configuration (args) of the invocation
    tkw,            \* the keyword arguments main hands to train
    tstate,         \* engine state: Initialized, TrainingStep, Completed
    epoch,          \* current epoch, 1-based
    batch_in_epoch, \* batches consumed in the current epoch
    consumed,       \* batches consumed since train started
    accumulated,    \* batches accumulated since the last optimizer step
    optimizer_steps,\* optimizer.step() calls so far
    global_step,    \* the engine's global step counter
    best_metric,    \* best value of metric_for_best_model seen, NoBest before
    patience_counter,\* consecutive counted non-improvements
    eval_history,   \* evaluations run so far: <<[metric, epoch]>>
    early_stopped,  \* TRUE once early stopping ended the loop
    \* ---- preprocessing pipeline of an entry point
    pwf,            \* entry point whose do_preprocess runs
    csv,            \* rows of the CSV file at the dataset path
    pstage,         \* index of the next pipeline step
    data,           \* the value handed from step to step
    tokenizer_input,\* rows handed to do_tokenize by hf_map
    steps_run,      \* names of the steps applied so far
    pstatus,        \* idle, running, done, failed
    \* ---- main() of an entry point: tracking run and evaluation loop
    rwf,            \* entry point invoked
    rargs,          \* its arguments
    rpc,            \* position in main
    mlflow_calls,   \* tracking-service calls made so far, in order
    loop_i,         \* training-loop steps done / datasets evaluated
    eval_calls,     \* evaluation workflow: do_preprocess + do_evaluate calls
    last_metrics,   \* evaluation workflow: metrics of the last do_evaluate
    metric_logs,    \* evaluation workflow: mlflow.log_metrics calls
    rfailure,       \* where an exception left main, "none" otherwise
    \* ---- legacy fine-tuning script and its training loop
    lentry,         \* "main": the legacy script; "train": train called directly
    largs,          \* epochs, dataloader lengths, step intervals, loss_fn
    lkwargs,        \* keyword names of the call to train
    lpc,            \* position: main, call, loop, returned, done, failed
    l_epoch,        \* epoch of the loop, 1-based
    l_batch,        \* batches of the current epoch already consumed
    l_consumed,     \* batches taken from train_dataloader so far
    l_global_step,  \* train's global_step
    l_ops,          \* backward / optimizer / validation / logging, in order
    l_error,        \* the exception raised, "none" otherwise
    l_exit,         \* process exit code once the script has ended
    l_complete_logged \* "Training complete." has been logged

trainVars == <<twf, targs, tkw, tstate, epoch, batch_in_epoch, consumed,
               accumulated, optimizer_steps, global_step, best_metric,
               patience_counter, eval_history, early_stopped>>

pipeVars == <<pwf, csv, pstage, data, tokenizer_input, steps_run, pstatus>>

runVars == <<rwf, rargs, rpc, mlflow_calls, loop_i, eval_calls, last_metrics,
             metric_logs, rfailure>>

legacyVars == <<lentry, largs, lkwargs, lpc, l_epoch, l_batch, l_consumed,
                l_global_step, l_ops, l_error, l_exit, l_complete_logged>>

vars == <<trainVars, pipeVars, runVars, legacyVars>>

(***************************************************************************)
(* Bounds of the model.                                                    *)
(***************************************************************************)
MaxEpochs == 5
MaxBatches == 2
MaxAccum == 4
MaxPatience == 2
MaxStart == 2
MaxRows == 3
MaxRunSteps == 2
MaxDatasets == 2
MaxLegacyEpochs == 2
MaxLegacyBatches == 2
MaxEvalBatches == 1
MaxInterval == 2

\* metric values in hundredths: 0.50, 0.55, 0.60
MetricValues == {50, 55, 60}
NoBest == -1
\* early_stopping_start left unset (None)
NoStart == 0

TrainWorkflows == {"finetuning", "adapter_pretraining"}

(***************************************************************************)
(* Run configuration of a training entry point.  The adapter-pretraining   *)
(* parser has no early_stopping_start, so it is unset there.               *)
(***************************************************************************)
TrainArgs(wf) ==
    [epochs : 1..MaxEpochs,
     train_batches : 1..MaxBatches,
     gradient_accumulation_steps : 1..MaxAccum,
     early_stopping_patience : 1..MaxPatience,
     greater_is_better : BOOLEAN,
     early_stopping_start :
        IF wf = "finetuning" THEN {NoStart} \cup (1..MaxStart) ELSE {NoStart}]

\* plausible slips in the call to train
KwAccumDropped(wf, args) ==
    [epochs |-> args.epochs,
     train_batches |-> args.train_batches,
     gradient_accumulation_steps |-> 1,
     early_stopping_patience |-> args.early_stopping_patience,
     greater_is_better |-> args.greater_is_better,
     early_stopping_start |-> IF wf = "finetuning"
                              THEN args.early_stopping_start ELSE NoStart]

KwPatienceOffByOne(wf, args) ==
    [epochs |-> args.epochs,
     train_batches |-> args.train_batches,
     gradient_accumulation_steps |-> args.gradient_accumulation_steps,
     early_stopping_patience |-> args.early_stopping_patience + 1,
     greater_is_better |-> args.greater_is_better,
     early_stopping_start |-> IF wf = "finetuning"
                              THEN args.early_stopping_start ELSE NoStart]

KwDirectionFlipped(wf, args) ==
    [epochs |-> args.epochs,
     train_batches |-> args.train_batches,
     gradient_accumulation_steps |-> args.gradient_accumulation_steps,
     early_stopping_patience |-> args.early_stopping_patience,
     greater_is_better |-> ~args.greater_is_better,
     early_stopping_start |-> IF wf = "finetuning"
                              THEN args.early_stopping_start ELSE NoStart]

(***************************************************************************)
(* The keyword arguments of the call train(...) in main.  Fine-tuning      *)
(* passes early_stopping_start; adapter pretraining does not, so train's   *)
(* default (unset) applies.                                                *)
(***************************************************************************)
TrainKwargs(wf, args) ==
    [epochs |-> args.epochs,
     train_batches |-> args.train_batches,
     gradient_accumulation_steps |-> args.gradient_accumulation_steps,
     early_stopping_patience |-> args.early_stopping_patience,
     greater_is_better |-> args.greater_is_better,
     early_stopping_start |-> IF wf = "finetuning"
                              THEN args.early_stopping_start ELSE NoStart]

(***************************************************************************)
(* Training engine.                                                        *)
(***************************************************************************)
\* "better": higher when greater_is_better, lower otherwise
IsBetter(greater, value, best) ==
    \/ best = NoBest
    \/ IF greater THEN value > best ELSE value < best

\* non-improvements count only once early_stopping_start has been reached
StartReached(start, ep) == start = NoStart \/ ep >= start

TrainInit ==
    /\ twf \in TrainWorkflows
    /\ targs \in TrainArgs(twf)
    /\ tkw = TrainKwargs(twf, targs)
    /\ tstate = "Initialized"
    /\ epoch = 1
    /\ batch_in_epoch = 0
    /\ consumed = 0
    /\ accumulated = 0
    /\ optimizer_steps = 0
    /\ global_step = 0
    /\ best_metric = NoBest
    /\ patience_counter = 0
    /\ eval_history = <<>>
    /\ early_stopped = FALSE

\* the engine is not running in the specifications of the other components
TrainIdle ==
    /\ twf = "finetuning"
    /\ targs = [epochs |-> 1, train_batches |-> 1,
                gradient_accumulation_steps |-> 1,
                early_stopping_patience |-> 1, greater_is_better |-> TRUE,
                early_stopping_start |-> NoStart]
    /\ tkw = targs
    /\ tstate = "Idle"
    /\ epoch = 1
    /\ batch_in_epoch = 0
    /\ consumed = 0
    /\ accumulated = 0
    /\ optimizer_steps = 0
    /\ global_step = 0
    /\ best_metric = NoBest
    /\ patience_counter = 0
    /\ eval_history = <<>>
    /\ early_stopped = FALSE

\* one batch: forward, loss, backward; every gradient_accumulation_steps-th
\* batch clips, steps the optimizer and scheduler, clears the gradients and
\* increments the global step
TrainBatch ==
    /\ tstate \in {"Initialized", "TrainingStep"}
    /\ batch_in_epoch < tkw.train_batches
    /\ tstate' = "TrainingStep"
    /\ batch_in_epoch' = batch_in_epoch + 1
    /\ consumed' = consumed + 1
    /\ IF accumulated + 1 = tkw.gradient_accumulation_steps
       THEN /\ accumulated' = 0
            /\ optimizer_steps' = optimizer_steps + 1
            /\ global_step' = global_step + 1
       ELSE /\ accumulated' = accumulated + 1
            /\ UNCHANGED <<optimizer_steps, global_step>>
    /\ UNCHANGED <<twf, targs, tkw, epoch, best_metric, patience_counter,
                   eval_history, early_stopped>>
    /\ UNCHANGED <<pipeVars, runVars, legacyVars>>

\* end of an epoch: evaluate, then the early-stopping check
EvaluateEpoch ==
    /\ tstate = "TrainingStep"
    /\ batch_in_epoch = tkw.train_batches
    /\ \E m \in MetricValues :
        LET improved == IsBetter(tkw.greater_is_better, m, best_metric)
            counted == StartReached(tkw.early_stopping_start, epoch)
            counter == IF improved THEN 0
                       ELSE IF counted THEN patience_counter + 1
                       ELSE patience_counter
            stop == counter >= tkw.early_stopping_patience
        IN  /\ eval_history' = Append(eval_history, [metric |-> m, epoch |-> epoch])
            /\ best_metric' = IF improved THEN m ELSE best_metric
            /\ patience_counter' = counter
            /\ early_stopped' = stop
            /\ IF stop \/ epoch = tkw.epochs
               THEN /\ tstate' = "Completed"
                    /\ UNCHANGED <<epoch, batch_in_epoch>>
               ELSE /\ tstate' = "TrainingStep"
                    /\ epoch' = epoch + 1
                    /\ batch_in_epoch' = 0
    /\ UNCHANGED <<twf, targs, tkw, consumed, accumulated, optimizer_steps,
                   global_step>>
    /\ UNCHANGED <<pipeVars, runVars, legacyVars>>

TrainNext == TrainBatch \/ EvaluateEpoch


(***************************************************************************)
(* Preprocessing pipelines: do_preprocess = pipeline(step, step, ...).     *)
(***************************************************************************)
Null == "NaN"
Absent == "absent"

PipeWorkflows == {"adapter_pretraining", "pretraining", "finetuning", "evaluation"}

\* a CSV row: the message column, a label column, a column no step reads
CsvRows == [message : {Null, "a"}, label : {Null, "1"}, extra : {Null, "x"}]

RECURSIVE SeqsUpTo(_, _)
SeqsUpTo(S, n) ==
    IF n = 0 THEN {<<>>}
    ELSE LET shorter == SeqsUpTo(S, n - 1)
         IN  shorter \cup {Append(t, x) : t \in {u \in shorter : Len(u) = n - 1}, x \in S}

CsvTables == SeqsUpTo(CsvRows, MaxRows)

\* a pipeline that lost its null-row removal
StepsNoDropna(wf) ==
    IF wf \in {"finetuning", "evaluation"}
    THEN <<"read_csv", "multihot_to_list", "to_hf_dataset",
           "hf_map", "convert_to_torch">>
    ELSE <<"read_csv", "to_hf_dataset", "hf_map", "convert_to_torch">>

\* the steps each entry point passes to pipeline(...), in order
PipelineSteps(wf) ==
    CASE wf = "finetuning" ->
            <<"read_csv", "dropna", "multihot_to_list", "to_hf_dataset",
              "hf_map", "convert_to_torch">>
      [] wf = "evaluation" ->
            <<"read_csv", "multihot_to_list", "to_hf_dataset",
              "hf_map", "convert_to_torch">>
      [] OTHER ->
            <<"read_csv", "dropna", "to_hf_dataset", "hf_map", "convert_to_torch">>

\* columns a workflow needs: the message, and the labels for classification
RequiredColumns(wf) ==
    IF wf \in {"finetuning", "evaluation"} THEN {"message", "label"} ELSE {"message"}

AllColumns == {"message", "label", "extra"}

HasNullIn(row, cols) == \E c \in cols : row[c] = Null

\* pd.read_csv: one table row per CSV row, empty cells read as NaN
ReadCsv(rows) ==
    [i \in 1..Len(rows) |->
        [message |-> rows[i].message, label |-> rows[i].label,
         extra |-> rows[i].extra, labels |-> Absent, input_ids |-> Absent]]

\* DataFrame.dropna with its defaults (how="any", no subset): a row with a
\* NaN in any column is removed
DropNa(table) == SelectSeq(table, LAMBDA r : ~HasNullIn(r, AllColumns))

\* multihot_to_list(label_columns=labels, result_column="labels")
MultihotToList(table) ==
    [i \in 1..Len(table) |-> [table[i] EXCEPT !.labels = <<table[i].label>>]]

\* do_tokenize on one message
Tokenize(message) == <<"[CLS]", message, "[SEP]">>

\* hf_map(do_tokenize, batched=True): adds the token columns row by row
HfMap(table) ==
    [i \in 1..Len(table) |->
        [table[i] EXCEPT !.input_ids = Tokenize(table[i].message)]]

PipeIdle ==
    /\ pwf = "finetuning"
    /\ csv = <<>>
    /\ pstage = 1
    /\ data = <<>>
    /\ tokenizer_input = <<>>
    /\ steps_run = <<>>
    /\ pstatus = "idle"

PipeInit ==
    /\ pwf \in PipeWorkflows
    /\ csv \in CsvTables
    /\ pstage = 1
    /\ data = <<>>
    /\ tokenizer_input = <<>>
    /\ steps_run = <<>>
    /\ pstatus = "running"

\* pipeline: the next step is applied to the previous step's output
AtStep(name) ==
    /\ pstatus = "running"
    /\ pstage <= Len(PipelineSteps(pwf))
    /\ PipelineSteps(pwf)[pstage] = name

Advance ==
    /\ pstage' = pstage + 1
    /\ pstatus' = IF pstage = Len(PipelineSteps(pwf)) THEN "done" ELSE "running"

StepReadCsv ==
    /\ AtStep("read_csv")
    /\ data' = ReadCsv(csv)
    /\ Advance
    /\ steps_run' = Append(steps_run, PipelineSteps(pwf)[pstage])
    /\ UNCHANGED <<pwf, csv, tokenizer_input>>
    /\ UNCHANGED <<trainVars, runVars, legacyVars>>

StepDropna ==
    /\ AtStep("dropna")
    /\ data' = DropNa(data)
    /\ Advance
    /\ steps_run' = Append(steps_run, PipelineSteps(pwf)[pstage])
    /\ UNCHANGED <<pwf, csv, tokenizer_input>>
    /\ UNCHANGED <<trainVars, runVars, legacyVars>>

StepMultihotToList ==
    /\ AtStep("multihot_to_list")
    /\ data' = MultihotToList(data)
    /\ Advance
    /\ steps_run' = Append(steps_run, PipelineSteps(pwf)[pstage])
    /\ UNCHANGED <<pwf, csv, tokenizer_input>>
    /\ UNCHANGED <<trainVars, runVars, legacyVars>>

\* to_hf_dataset: the same rows in the dataset representation
StepToHfDataset ==
    /\ AtStep("to_hf_dataset")
    /\ data' = data
    /\ Advance
    /\ steps_run' = Append(steps_run, PipelineSteps(pwf)[pstage])
    /\ UNCHANGED <<pwf, csv, tokenizer_input>>
    /\ UNCHANGED <<trainVars, runVars, legacyVars>>

\* hf_map hands every row to do_tokenize; a message that is not text makes
\* the tokenizer raise, which aborts the pipeline
StepHfMap ==
    /\ AtStep("hf_map")
    /\ tokenizer_input' = data
    /\ IF \E i \in 1..Len(data) : data[i].message = Null
       THEN /\ pstatus' = "failed"
            /\ UNCHANGED <<pstage, data>>
       ELSE /\ data' = HfMap(data)
            /\ Advance
    /\ steps_run' = Append(steps_run, "hf_map")
    /\ UNCHANGED <<pwf, csv>>
    /\ UNCHANGED <<trainVars, runVars, legacyVars>>

\* convert_to_torch(columns=sequence_columns): representation only
StepConvertToTorch ==
    /\ AtStep("convert_to_torch")
    /\ data' = data
    /\ Advance
    /\ steps_run' = Append(steps_run, PipelineSteps(pwf)[pstage])
    /\ UNCHANGED <<pwf, csv, tokenizer_input>>
    /\ UNCHANGED <<trainVars, runVars, legacyVars>>

PipeNext ==
    \/ StepReadCsv
    \/ StepDropna
    \/ StepMultihotToList
    \/ StepToHfDataset
    \/ StepHfMap
    \/ StepConvertToTorch


\* the CSV columns of a dataset row
CsvColumns(table) ==
    [i \in 1..Len(table) |->
        [message |-> table[i].message, label |-> table[i].label,
         extra |-> table[i].extra]]

(***************************************************************************)
(* C4: in every workflow that preprocesses a CSV, when the file has rows   *)
(* with a missing required field the null-row removal step has run before  *)
(* tokenization does, and no row with a missing required field reaches     *)
(* tokenization or the output dataset.                                     *)
(***************************************************************************)
C4_NullRowsDroppedBeforeTokenization ==
    /\ \A j \in 1..Len(steps_run) :
          /\ steps_run[j] = "hf_map"
          /\ \E r \in 1..Len(csv) : HasNullIn(csv[r], RequiredColumns(pwf))
          => \E i \in 1..(j - 1) : steps_run[i] = "dropna"
    /\ \A i \in 1..Len(tokenizer_input) :
          ~HasNullIn(tokenizer_input[i], RequiredColumns(pwf))
    /\ pstatus = "done" =>
          \A i \in 1..Len(data) : ~HasNullIn(data[i], RequiredColumns(pwf))

(***************************************************************************)
(* C5 as claimed: the output dataset holds exactly the input rows with no  *)
(* null in a required column, each once, in order, values unchanged (so a  *)
(* row whose only null is in a non-required column is kept).               *)
(***************************************************************************)
C5_ExactlyRequiredNullRowsDropped ==
    (pwf # "evaluation" /\ pstatus = "done") =>
        CsvColumns(data) =
            SelectSeq(csv, LAMBDA r : ~HasNullIn(r, RequiredColumns(pwf)))

\* C5 (amended): in the adapter-pretraining, pretraining and fine-tuning
\* pipelines the output dataset holds exactly the input rows with no null
\* in any column, each once, in their original order, values unchanged; a
\* row with a null in a non-required column is dropped as well
C5_ExactlyAnyNullRowsDropped ==
    pwf # "evaluation" =>
        /\ pstatus # "failed"
        /\ pstatus = "done" =>
              /\ CsvColumns(data) =
                    SelectSeq(csv, LAMBDA r : ~HasNullIn(r, AllColumns))
              /\ CsvColumns(tokenizer_input) = CsvColumns(data)

C5_Witness ==
    /\ pwf = "finetuning"
    /\ pstatus = "done"
    /\ Len(csv) = 3
    /\ Len(data) = 1
    /\ csv[1].extra = Null /\ ~HasNullIn(csv[1], RequiredColumns(pwf))
    /\ csv[2].label = Null
    /\ ~HasNullIn(csv[3], AllColumns)

(***************************************************************************)
(* main() of the entry points: tracking run and evaluation loop.           *)
(***************************************************************************)
RunWorkflows == {"adapter_pretraining", "pretraining", "finetuning", "evaluation"}

TrainingWorkflows == {"adapter_pretraining", "pretraining", "finetuning"}

DatasetNames == {"a", "b"}
DatasetPaths == {"a.csv", "b.csv"}

NonEmptySeqsUpTo(S, n) == SeqsUpTo(S, n) \ {<<>>}

\* --checkpoint, as its "/"-separated segments, each as its "-"-separated
\* parts: out/checkpoint-500, ck-7, run-3/model, run-3/ck-7,
\* out/checkpoint-500/
Checkpoints ==
    { << <<"out">>, <<"checkpoint", "500">> >>,
      << <<"ck", "7">> >>,
      << <<"run", "3">>, <<"model">> >>,
      << <<"run", "3">>, <<"ck", "7">> >>,
      << <<"out">>, <<"checkpoint", "500">>, <<"">> >> }

NoCheckpoint == << <<"">> >>
NotAnInt == -1

\* the step taken from the first segment of the path instead of the last
CheckpointStepFirstSegment(checkpoint) ==
    LET first == checkpoint[1]
    IN  first[Len(first)]

\* args.checkpoint.split("/")[-1].split("-")[-1]
CheckpointStep(checkpoint) ==
    LET last == checkpoint[Len(checkpoint)]
    IN  last[Len(last)]

\* int(checkpoint_step): ValueError unless the text is a decimal number
ToInt(text) ==
    CASE text = "500" -> 500
      [] text = "7" -> 7
      [] text = "3" -> 3
      [] OTHER -> NotAnInt

\* arguments of an invocation; tracking: the mlflow group / experiment (the
\* training workflows) or --mlflow_run_id (evaluation) is given
RunArgs(wf) ==
    IF wf = "evaluation"
    THEN [tracking : BOOLEAN,
          dataset_names : NonEmptySeqsUpTo(DatasetNames, MaxDatasets),
          dataset_paths : NonEmptySeqsUpTo(DatasetPaths, MaxDatasets),
          checkpoint : Checkpoints]
    ELSE [tracking : BOOLEAN,
          dataset_names : {<<>>},
          dataset_paths : {<<>>},
          checkpoint : {NoCheckpoint}]

\* tracking forced on in every workflow
UseMlflowAlways(wf, args) == TRUE

\* whether main makes tracking calls: use_mlflow in the training workflows;
\* run_evaluation calls mlflow unconditionally
UseMlflow(wf, args) ==
    IF wf = "evaluation" THEN TRUE ELSE args.tracking

\* parameters logged before the run is started
StartCallsParamsFirst(wf) ==
    CASE wf = "finetuning" ->
            <<"set_tracking_uri", "set_experiment", "log_dict", "start_run">>
      [] wf = "pretraining" ->
            <<"set_tracking_uri", "set_experiment", "log_params", "start_run",
              "set_tags">>
      [] wf = "adapter_pretraining" ->
            <<"set_tracking_uri", "set_experiment", "log_params", "start_run">>
      [] OTHER -> <<"set_tracking_uri", "start_run">>

\* the tracking calls main makes before the loop, in order
StartCalls(wf) ==
    CASE wf = "finetuning" ->
            <<"set_tracking_uri", "set_experiment", "start_run", "log_dict">>
      [] wf = "pretraining" ->
            <<"set_tracking_uri", "set_experiment", "start_run", "log_params",
              "set_tags">>
      [] wf = "adapter_pretraining" ->
            <<"set_tracking_uri", "set_experiment", "start_run", "log_params">>
      [] OTHER -> <<"set_tracking_uri", "start_run">>

\* itertools.zip_longest in place of zip: the shorter list padded with None
ZipLongest(names, paths) ==
    LET n == IF Len(names) >= Len(paths) THEN Len(names) ELSE Len(paths)
    IN  [i \in 1..n |->
            [name |-> IF i <= Len(names) THEN names[i] ELSE "None",
             path |-> IF i <= Len(paths) THEN paths[i] ELSE "None"]]

\* names paired with the paths in reverse order
ZipCrossed(names, paths) ==
    LET n == IF Len(names) <= Len(paths) THEN Len(names) ELSE Len(paths)
    IN  [i \in 1..n |-> [name |-> names[i], path |-> paths[n + 1 - i]]]

\* zip(args.dataset_names, args.dataset_paths): pairs by index, as many as
\* the shorter list has
Zip(names, paths) ==
    LET n == IF Len(names) <= Len(paths) THEN Len(names) ELSE Len(paths)
    IN  [i \in 1..n |-> [name |-> names[i], path |-> paths[i]]]

NoMetrics == [prefix |-> "", source |-> ""]

\* evaluate_finetuning()(model, dataloader, prefix): metrics of the dataset
\* the dataloader was built from, named with the prefix
DoEvaluate(path, prefix) == [prefix |-> prefix, source |-> path]

RunIdle ==
    /\ rwf = "finetuning"
    /\ rargs = [tracking |-> FALSE, dataset_names |-> <<>>,
                dataset_paths |-> <<>>, checkpoint |-> NoCheckpoint]
    /\ rpc = "idle"
    /\ mlflow_calls = <<>>
    /\ loop_i = 0
    /\ eval_calls = <<>>
    /\ last_metrics = NoMetrics
    /\ metric_logs = <<>>
    /\ rfailure = "none"

RunInit ==
    /\ rwf \in RunWorkflows
    /\ rargs \in RunArgs(rwf)
    /\ rpc = "setup"
    /\ mlflow_calls = <<>>
    /\ loop_i = 0
    /\ eval_calls = <<>>
    /\ last_metrics = NoMetrics
    /\ metric_logs = <<>>
    /\ rfailure = "none"

\* the body of main wrapped in try / finally: the exception is recorded and
\* control goes on to the closing statements
RaiseThenFinally(where) ==
    /\ rpc' = "end"
    /\ rfailure' = where

\* an exception leaves main: nothing after the raising statement runs
Raise(where) ==
    /\ rpc' = "failed"
    /\ rfailure' = where

\* everything before the tracking block: seed, tokenizer, preprocessing,
\* model loading, optimizer (evaluation: logging and labels)
RunSetup ==
    /\ rpc = "setup"
    /\ rpc' = "tracking"
    /\ UNCHANGED <<rwf, rargs, mlflow_calls, loop_i, eval_calls, last_metrics,
                   metric_logs, rfailure>>
    /\ UNCHANGED <<trainVars, pipeVars, legacyVars>>

RunSetupFails ==
    /\ rpc = "setup"
    /\ Raise("setup")
    /\ UNCHANGED <<rwf, rargs, mlflow_calls, loop_i, eval_calls, last_metrics,
                   metric_logs>>
    /\ UNCHANGED <<trainVars, pipeVars, legacyVars>>

\* the tracking block: start the run and log the configuration
RunStartTracking ==
    /\ rpc = "tracking"
    /\ mlflow_calls' = IF UseMlflow(rwf, rargs)
                       THEN mlflow_calls \o StartCalls(rwf)
                       ELSE mlflow_calls
    /\ rpc' = IF rwf = "evaluation" THEN "loop" ELSE "train"
    /\ UNCHANGED <<rwf, rargs, loop_i, eval_calls, last_metrics, metric_logs,
                   rfailure>>
    /\ UNCHANGED <<trainVars, pipeVars, legacyVars>>

\* the tracking service cannot be reached: set_experiment / start_run raises
RunStartTrackingFails ==
    /\ rpc = "tracking"
    /\ UseMlflow(rwf, rargs)
    /\ mlflow_calls' = Append(mlflow_calls, "set_tracking_uri")
    /\ Raise("tracking")
    /\ UNCHANGED <<rwf, rargs, loop_i, eval_calls, last_metrics, metric_logs>>
    /\ UNCHANGED <<trainVars, pipeVars, legacyVars>>

\* a statement of the tracking block after mlflow.start_run raises: writing
\* mlflow_run_id.txt, or logging the configuration
RunLogConfigFails ==
    /\ rpc = "tracking"
    /\ rwf \in TrainingWorkflows
    /\ UseMlflow(rwf, rargs)
    /\ mlflow_calls' = mlflow_calls \o SubSeq(StartCalls(rwf), 1, 3)
    /\ Raise("log_config")
    /\ UNCHANGED <<rwf, rargs, loop_i, eval_calls, last_metrics, metric_logs>>
    /\ UNCHANGED <<trainVars, pipeVars, legacyVars>>

\* train(..., use_mlflow=use_mlflow): a step of the loop, which logs the
\* loss or the evaluation metrics to the tracking run when use_mlflow
RunTrainStep ==
    /\ rpc = "train"
    /\ loop_i < MaxRunSteps
    /\ \E what \in {"log_metric", "log_metrics", "nothing"} :
          mlflow_calls' = IF UseMlflow(rwf, rargs) /\ what # "nothing"
                          THEN Append(mlflow_calls, what)
                          ELSE mlflow_calls
    /\ loop_i' = loop_i + 1
    /\ UNCHANGED <<rwf, rargs, rpc, eval_calls, last_metrics, metric_logs,
                   rfailure>>
    /\ UNCHANGED <<trainVars, pipeVars, legacyVars>>

RunTrainFails ==
    /\ rpc = "train"
    /\ Raise("train")
    /\ UNCHANGED <<rwf, rargs, mlflow_calls, loop_i, eval_calls, last_metrics,
                   metric_logs>>
    /\ UNCHANGED <<trainVars, pipeVars, legacyVars>>

RunTrainReturns ==
    /\ rpc = "train"
    /\ rpc' = "end"
    /\ UNCHANGED <<rwf, rargs, mlflow_calls, loop_i, eval_calls, last_metrics,
                   metric_logs, rfailure>>
    /\ UNCHANGED <<trainVars, pipeVars, legacyVars>>

\* one iteration of the evaluation loop up to do_evaluate: load tokenizer
\* and model, preprocess dataset_path, evaluate with prefix dataset_name
EvalDataset ==
    /\ rpc = "loop"
    /\ loop_i < Len(Zip(rargs.dataset_names, rargs.dataset_paths))
    /\ LET pair == Zip(rargs.dataset_names, rargs.dataset_paths)[loop_i + 1]
       IN  /\ eval_calls' = Append(eval_calls,
                                   [read |-> pair.path, prefix |-> pair.name])
           /\ last_metrics' = DoEvaluate(pair.path, pair.name)
    /\ rpc' = "log"
    /\ UNCHANGED <<rwf, rargs, mlflow_calls, loop_i, metric_logs, rfailure>>
    /\ UNCHANGED <<trainVars, pipeVars, legacyVars>>

\* model loading, preprocessing or evaluation raises
EvalDatasetFails ==
    /\ rpc = "loop"
    /\ loop_i < Len(Zip(rargs.dataset_names, rargs.dataset_paths))
    /\ \E where \in {"load", "preprocess", "evaluate"} : Raise(where)
    /\ UNCHANGED <<rwf, rargs, mlflow_calls, loop_i, eval_calls, last_metrics,
                   metric_logs>>
    /\ UNCHANGED <<trainVars, pipeVars, legacyVars>>

\* mlflow.log_metrics(metrics, step=int(checkpoint_step))
EvalLogMetrics ==
    /\ rpc = "log"
    /\ LET step == ToInt(CheckpointStep(rargs.checkpoint))
       IN  IF step = NotAnInt
           THEN /\ Raise("int")
                /\ UNCHANGED <<mlflow_calls, metric_logs, loop_i>>
           ELSE /\ mlflow_calls' = Append(mlflow_calls, "log_metrics")
                /\ metric_logs' = Append(metric_logs,
                                         [metrics |-> last_metrics, step |-> step])
                /\ loop_i' = loop_i + 1
                /\ rpc' = "loop"
                /\ UNCHANGED rfailure
    /\ UNCHANGED <<rwf, rargs, eval_calls, last_metrics>>
    /\ UNCHANGED <<trainVars, pipeVars, legacyVars>>

EvalLoopExit ==
    /\ rpc = "loop"
    /\ loop_i = Len(Zip(rargs.dataset_names, rargs.dataset_paths))
    /\ rpc' = "end"
    /\ UNCHANGED <<rwf, rargs, mlflow_calls, loop_i, eval_calls, last_metrics,
                   metric_logs, rfailure>>
    /\ UNCHANGED <<trainVars, pipeVars, legacyVars>>

\* the last statements of main: the closing log line, then mlflow.end_run()
RunEnd ==
    /\ rpc = "end"
    /\ mlflow_calls' = IF UseMlflow(rwf, rargs)
                       THEN Append(mlflow_calls, "end_run")
                       ELSE mlflow_calls
    /\ rpc' = "done"
    /\ UNCHANGED <<rwf, rargs, loop_i, eval_calls, last_metrics, metric_logs,
                   rfailure>>
    /\ UNCHANGED <<trainVars, pipeVars, legacyVars>>

RunNext ==
    \/ RunSetup
    \/ RunSetupFails
    \/ RunStartTracking
    \/ RunStartTrackingFails
    \/ RunLogConfigFails
    \/ RunTrainStep
    \/ RunTrainFails
    \/ RunTrainReturns
    \/ EvalDataset
    \/ EvalDatasetFails
    \/ EvalLogMetrics
    \/ EvalLoopExit
    \/ RunEnd

(***************************************************************************)
(* Legacy fine-tuning script and the simplified training loop.             *)
(***************************************************************************)
\* parameters of train: all but loss_fn are required
TrainRequired ==
    {"model", "tokenizer", "optimizer", "train_dataloader", "eval_dataloader",
     "epochs", "eval_steps", "logging_steps"}

TrainOptional == {"loss_fn"}

\* keyword arguments of the call train(...) in the legacy main
LegacyMainKwargs ==
    {"model", "tokenizer", "optimizer", "train_dataloader", "eval_dataloader",
     "epochs", "eval_steps", "loss_logging_steps"}

\* a call is accepted when every keyword names a parameter and every
\* required parameter is given
Accepts(required, optional, given) ==
    /\ given \subseteq required \cup optional
    /\ required \subseteq given

\* parameters of the loss function: default_loss_function takes input and
\* target; "with_reduction" is a caller's function that also takes reduction
LossParams(loss_fn) ==
    IF loss_fn = "default_loss_function"
    THEN {"input", "target"}
    ELSE {"input", "target", "reduction"}

\* keywords of the call loss_fn(input=..., target=..., reduction="mean")
LossCallKwargs == {"input", "target", "reduction"}

LegacyArgs ==
    [epochs : 0..MaxLegacyEpochs,
     train_batches : 0..MaxLegacyBatches,
     eval_batches : 0..MaxEvalBatches,
     eval_steps : 1..MaxInterval,
     logging_steps : 1..MaxInterval,
     loss_fn : {"default_loss_function", "with_reduction"},
     add_raises : BOOLEAN]

LegacyIdle ==
    /\ lentry = "main"
    /\ largs = [epochs |-> 0, train_batches |-> 0, eval_batches |-> 0,
                eval_steps |-> 1, logging_steps |-> 1,
                loss_fn |-> "default_loss_function", add_raises |-> FALSE]
    /\ lkwargs = {}
    /\ lpc = "idle"
    /\ l_epoch = 1
    /\ l_batch = 0
    /\ l_consumed = 0
    /\ l_global_step = 0
    /\ l_ops = <<>>
    /\ l_error = "none"
    /\ l_exit = -1
    /\ l_complete_logged = FALSE

\* the script's main (loss_fn left at its default), or a direct call of
\* train with its own parameter names
LegacyInit ==
    /\ lentry \in {"main", "train"}
    /\ largs \in LegacyArgs
    /\ lentry = "main" => largs.loss_fn = "default_loss_function"
    /\ lkwargs = IF lentry = "main" THEN {} ELSE TrainRequired
    /\ lpc = IF lentry = "main" THEN "main" ELSE "call"
    /\ l_epoch = 1
    /\ l_batch = 0
    /\ l_consumed = 0
    /\ l_global_step = 0
    /\ l_ops = <<>>
    /\ l_error = "none"
    /\ l_exit = -1
    /\ l_complete_logged = FALSE

\* main up to the call: arguments, tokenizer, data, model, optimizer
LegacyMainSetup ==
    /\ lpc = "main"
    /\ lkwargs' = LegacyMainKwargs
    /\ lpc' = "call"
    /\ UNCHANGED <<lentry, largs, l_epoch, l_batch, l_consumed, l_global_step,
                   l_ops, l_error, l_exit, l_complete_logged>>
    /\ UNCHANGED <<trainVars, pipeVars, runVars>>

\* the call train(**kwargs): TypeError unless the keywords fit the parameters
LegacyCallTrain ==
    /\ lpc = "call"
    /\ IF Accepts(TrainRequired, TrainOptional, lkwargs)
       THEN /\ lpc' = "loop"
            /\ UNCHANGED <<l_error, l_exit>>
       ELSE /\ lpc' = "failed"
            /\ l_error' = "TypeError: train"
            /\ l_exit' = IF lentry = "main" THEN 1 ELSE l_exit
    /\ UNCHANGED <<lentry, largs, lkwargs, l_epoch, l_batch, l_consumed,
                   l_global_step, l_ops, l_complete_logged>>
    /\ UNCHANGED <<trainVars, pipeVars, runVars>>

Op(name, step, n) == [op |-> name, step |-> step, n |-> n]

\* validation: for each evaluation batch a forward pass, argmax and
\* f1_metric.add() without prediction or reference, which the metric
\* library may reject
ValidationRaises(args) == args.eval_batches > 0 /\ args.add_raises

\* body of the batch loop for one batch
LegacyBatch ==
    /\ lpc = "loop"
    /\ l_epoch <= largs.epochs
    /\ largs.train_batches > 0
    /\ LET g == l_global_step + 1
           loss_ok == Accepts(LossParams(largs.loss_fn), {}, LossCallKwargs)
           stepped == <<Op("backward", g, 1), Op("optimizer.step", g, 1),
                        Op("zero_grad", g, 1)>>
           validate == g % largs.eval_steps = 0
           validated == IF validate
                        THEN <<Op("validation", g,
                                  IF ValidationRaises(largs) THEN 0
                                  ELSE largs.eval_batches)>>
                        ELSE <<>>
           logged == IF g % largs.logging_steps = 0
                     THEN <<Op("log_loss", g, 1)>> ELSE <<>>
       IN  /\ l_global_step' = g
           /\ l_consumed' = l_consumed + 1
           /\ IF ~loss_ok
              THEN /\ l_error' = "TypeError: loss_fn"
                   /\ lpc' = "failed"
                   /\ UNCHANGED <<l_ops, l_epoch, l_batch>>
              ELSE IF validate /\ ValidationRaises(largs)
              THEN /\ l_error' = "ValueError: f1.add"
                   /\ lpc' = "failed"
                   /\ l_ops' = l_ops \o stepped \o validated
                   /\ UNCHANGED <<l_epoch, l_batch>>
              ELSE /\ l_ops' = l_ops \o stepped \o validated \o logged
                   /\ IF l_batch + 1 = largs.train_batches
                      THEN l_epoch' = l_epoch + 1 /\ l_batch' = 0
                      ELSE l_epoch' = l_epoch /\ l_batch' = l_batch + 1
                   /\ UNCHANGED <<l_error, lpc>>
    /\ UNCHANGED <<lentry, largs, lkwargs, l_exit, l_complete_logged>>
    /\ UNCHANGED <<trainVars, pipeVars, runVars>>

\* range(1, epochs + 1) exhausted (or nothing to iterate): train returns
LegacyTrainReturns ==
    /\ lpc = "loop"
    /\ l_epoch > largs.epochs \/ largs.train_batches = 0
    /\ lpc' = "returned"
    /\ UNCHANGED <<lentry, largs, lkwargs, l_epoch, l_batch, l_consumed,
                   l_global_step, l_ops, l_error, l_exit, l_complete_logged>>
    /\ UNCHANGED <<trainVars, pipeVars, runVars>>

\* after train: main logs "Training complete." and the script exits with 0
LegacyAfterTrain ==
    /\ lpc = "returned"
    /\ lpc' = "done"
    /\ l_complete_logged' = (lentry = "main")
    /\ l_exit' = IF lentry = "main" THEN 0 ELSE l_exit
    /\ UNCHANGED <<lentry, largs, lkwargs, l_epoch, l_batch, l_consumed,
                   l_global_step, l_ops, l_error>>
    /\ UNCHANGED <<trainVars, pipeVars, runVars>>

LegacyNext ==
    \/ LegacyMainSetup
    \/ LegacyCallTrain
    \/ LegacyBatch
    \/ LegacyTrainReturns
    \/ LegacyAfterTrain

(***************************************************************************)
(* Specifications: one per component, the other components idle.           *)
(***************************************************************************)
\* SPECIFICATIONS
InitTrain == TrainInit /\ PipeIdle /\ RunIdle /\ LegacyIdle

SpecTrain == InitTrain /\ [][TrainNext]_vars

InitPipe == PipeInit /\ TrainIdle /\ RunIdle /\ LegacyIdle

SpecPipe == InitPipe /\ [][PipeNext]_vars

InitRun == RunInit /\ TrainIdle /\ PipeIdle /\ LegacyIdle

SpecRun == InitRun /\ [][RunNext]_vars

InitLegacy == LegacyInit /\ TrainIdle /\ PipeIdle /\ RunIdle

SpecLegacy == InitLegacy /\ [][LegacyNext]_vars

(***************************************************************************)
(* Tracking calls of an invocation.                                        *)
(***************************************************************************)
CallCount(op) == Cardinality({i \in 1..Len(mlflow_calls) : mlflow_calls[i] = op})

ParamLogs == {"log_dict", "log_params", "set_tags"}
LoopLogs == {"log_metric", "log_metrics"}

PairCount == Len(rargs.dataset_names)

(***************************************************************************)
(* C6: evaluation workflow, dataset_names and dataset_paths of equal       *)
(* length n: the evaluations are made in list order, the i-th reads        *)
(* dataset_paths[i] with prefix dataset_names[i], the i-th log_metrics     *)
(* call carries the metrics computed from dataset_paths[i] under           *)
(* dataset_names[i], and a run that completes has made exactly n of each.  *)
(***************************************************************************)
C6_MetricsPerDataset ==
    (rwf = "evaluation" /\ Len(rargs.dataset_names) = Len(rargs.dataset_paths)) =>
        /\ Len(eval_calls) <= PairCount
        /\ \A i \in 1..Len(eval_calls) :
              eval_calls[i] = [read |-> rargs.dataset_paths[i],
                               prefix |-> rargs.dataset_names[i]]
        /\ Len(metric_logs) <= Len(eval_calls)
        /\ Len(eval_calls) <= Len(metric_logs) + 1
        /\ \A i \in 1..Len(metric_logs) :
              metric_logs[i].metrics = [prefix |-> rargs.dataset_names[i],
                                        source |-> rargs.dataset_paths[i]]
        /\ CallCount("log_metrics") = Len(metric_logs)
        /\ rpc = "done" =>
              Len(eval_calls) = PairCount /\ Len(metric_logs) = PairCount

C6_Witness ==
    /\ rwf = "evaluation"
    /\ rpc = "done"
    /\ rargs.dataset_names = <<"a", "b">>
    /\ rargs.dataset_paths = <<"a.csv", "b.csv">>
    /\ Len(metric_logs) = 2
    /\ metric_logs[2].metrics = [prefix |-> "b", source |-> "b.csv"]

C8_NoTrackingCallsUnlessConfigured ==
    ~rargs.tracking => (mlflow_calls = <<>> /\ rfailure # "tracking")

\* C8 (amended): in the adapter-pretraining, pretraining and fine-tuning
\* workflows an invocation without tracking configured makes no tracking
\* call, the tracking block raises nothing and main goes on to the training
\* loop; the checkpoint evaluation workflow sets the tracking URI and
\* starts a run in every invocation, whether --mlflow_run_id is given or not
C8_TrackingOptionalInTraining ==
    /\ (rwf \in TrainingWorkflows /\ ~rargs.tracking) =>
          /\ mlflow_calls = <<>>
          /\ rfailure # "tracking"
          /\ rpc = "tracking" => ENABLED RunStartTracking
    /\ (rwf = "evaluation" /\ rpc \in {"loop", "log", "end", "done"}) =>
          SubSeq(mlflow_calls, 1, 2) = <<"set_tracking_uri", "start_run">>

C8_Witness ==
    /\ rwf = "finetuning"
    /\ ~rargs.tracking
    /\ rpc = "done"
    /\ loop_i >= 1
    /\ mlflow_calls = <<>>

(***************************************************************************)
(* What the legacy loop is claimed to have done after n batches.           *)
(***************************************************************************)
RECURSIVE ExpectedOps(_, _)
ExpectedOps(n, args) ==
    IF n = 0 THEN <<>>
    ELSE ExpectedOps(n - 1, args)
         \o <<Op("backward", n, 1), Op("optimizer.step", n, 1), Op("zero_grad", n, 1)>>
         \o (IF n % args.eval_steps = 0
             THEN <<Op("validation", n, args.eval_batches)>> ELSE <<>>)
         \o (IF n % args.logging_steps = 0
             THEN <<Op("log_loss", n, 1)>> ELSE <<>>)

(***************************************************************************)
(* C9: legacy loop: every consumed batch has one backward pass, one        *)
(* optimizer step and one gradient clear, in that order; global_step is    *)
(* the number of batches consumed; validation runs exactly at multiples of *)
(* eval_steps and the loss is logged exactly at multiples of               *)
(* logging_steps; the loop terminates with global_step = epochs * L.       *)
(***************************************************************************)
C9_LegacyLoopStepPerBatch ==
    lpc \in {"loop", "returned", "done", "failed"} =>
        /\ l_global_step = l_consumed
        /\ l_ops = ExpectedOps(l_consumed, largs)
        /\ l_error = "none"
        /\ lpc \in {"returned", "done"} =>
              l_global_step = largs.epochs * largs.train_batches

(***************************************************************************)
(* C10: the legacy workflow runs to normal completion: the call to train   *)
(* is accepted, every loss is computed by the default loss function, every *)
(* scheduled validation goes through all evaluation batches, and main      *)
(* reaches "Training complete." and exits with code zero without an        *)
(* exception.                                                              *)
(***************************************************************************)
C10_LegacyWorkflowCompletes ==
    lentry = "main" =>
        /\ l_error = "none"
        /\ lpc # "failed"
        /\ l_exit \in {-1, 0}
        /\ lpc \in {"loop", "returned", "done"} =>
              l_ops = ExpectedOps(l_consumed, largs)
        /\ lpc = "done" => (l_complete_logged /\ l_exit = 0)

(***************************************************************************)
(* Recomputation of the early-stopping decision from the evaluation        *)
(* history and the run configuration (not from the engine's counters).     *)
(***************************************************************************)
Front(h) == SubSeq(h, 1, Len(h) - 1)

Metrics(h) == [i \in 1..Len(h) |-> h[i].metric]

IsPrefixOf(s, t) == Len(s) <= Len(t) /\ s = SubSeq(t, 1, Len(s))

RECURSIVE BestSeen(_, _)
BestSeen(h, greater) ==
    IF h = <<>> THEN NoBest
    ELSE LET prev == BestSeen(Front(h), greater)
             m == h[Len(h)].metric
         IN  IF prev = NoBest THEN m
             ELSE IF greater THEN (IF m > prev THEN m ELSE prev)
             ELSE (IF m < prev THEN m ELSE prev)

\* whether the last evaluation of h improved on the best of the earlier ones
Improved(h, greater) ==
    LET prev == BestSeen(Front(h), greater)
        m == h[Len(h)].metric
    IN  prev = NoBest \/ (IF greater THEN m > prev ELSE m < prev)

\* consecutive counted evaluations without improvement at the end of h
RECURSIVE NonImproving(_, _, _)
NonImproving(h, greater, start) ==
    IF h = <<>> THEN 0
    ELSE IF Improved(h, greater) THEN 0
    ELSE IF start = NoStart \/ h[Len(h)].epoch >= start
         THEN NonImproving(Front(h), greater, start) + 1
         ELSE NonImproving(Front(h), greater, start)

\* the i-th evaluation completes early_stopping_patience non-improvements
PatienceExhausted(i) ==
    NonImproving(SubSeq(eval_history, 1, i), targs.greater_is_better,
                 targs.early_stopping_start) >= targs.early_stopping_patience

C3_Case ==
    /\ targs.greater_is_better
    /\ targs.early_stopping_patience = 2
    /\ targs.early_stopping_start = NoStart
    /\ targs.epochs >= 5

C3_Sequence == <<50, 60, 55, 55, 55>>

DirName(checkpoint) ==
    IF Len(checkpoint) > 1 /\ checkpoint[Len(checkpoint)] = <<"">>
    THEN checkpoint[Len(checkpoint) - 1]
    ELSE checkpoint[Len(checkpoint)]

\* the name ends in "-<n>", n a non-negative integer
EndsInStep(name) == Len(name) >= 2 /\ ToInt(name[Len(name)]) # NotAnInt

SuffixStep(name) == ToInt(name[Len(name)])

(***************************************************************************)
(* C11: evaluation workflow, --checkpoint naming a directory whose name    *)
(* ends in "-<n>": every log_metrics call of the invocation carries        *)
(* step = n, the same step for every dataset, whatever numbers the other   *)
(* segments of the path hold; when the directory name is the last segment  *)
(* of the path as given, converting the step to an integer never fails.    *)
(***************************************************************************)
C11_StepFromCheckpointSuffix ==
    (rwf = "evaluation" /\ EndsInStep(DirName(rargs.checkpoint))) =>
        /\ \A i \in 1..Len(metric_logs) :
              metric_logs[i].step = SuffixStep(DirName(rargs.checkpoint))
        /\ \A i, j \in 1..Len(metric_logs) :
              metric_logs[i].step = metric_logs[j].step
        /\ DirName(rargs.checkpoint) = rargs.checkpoint[Len(rargs.checkpoint)] =>
              rfailure # "int"

C11_Witness ==
    /\ rwf = "evaluation"
    /\ rargs.checkpoint = << <<"run", "3">>, <<"ck", "7">> >>
    /\ rpc = "done"
    /\ Len(metric_logs) = 2
    /\ metric_logs[1].step = 7
    /\ metric_logs[2].step = 7

(***************************************************************************)
(* Lists of different lengths in the evaluation workflow.                  *)
(***************************************************************************)
\* length of the shorter of args.dataset_names and args.dataset_paths
MinLen ==
    IF Len(rargs.dataset_names) <= Len(rargs.dataset_paths)
    THEN Len(rargs.dataset_names)
    ELSE Len(rargs.dataset_paths)

\* the statements of run_evaluation.main that the model lets raise
EvalFailures == {"setup", "tracking", "load", "preprocess", "evaluate", "int"}

(***************************************************************************)
(* C12: evaluation workflow, dataset_names and dataset_paths of different  *)
(* lengths: at most min(len) datasets are evaluated and logged, the i-th   *)
(* pairing dataset_names[i] with dataset_paths[i]; after the min(len)-th   *)
(* the loop ends normally, so the surplus entries of the longer list are   *)
(* never evaluated or logged and a run that completes has made exactly     *)
(* min(len) evaluations and logs; no exception comes from the mismatch.    *)
(***************************************************************************)
C12_MismatchedListsTruncated ==
    (rwf = "evaluation" /\ Len(rargs.dataset_names) # Len(rargs.dataset_paths)) =>
        /\ Len(eval_calls) <= MinLen
        /\ Len(metric_logs) <= Len(eval_calls)
        /\ \A i \in 1..Len(eval_calls) :
              eval_calls[i] = [read |-> rargs.dataset_paths[i],
                               prefix |-> rargs.dataset_names[i]]
        /\ \A i \in 1..Len(metric_logs) :
              metric_logs[i].metrics = [prefix |-> rargs.dataset_names[i],
                                        source |-> rargs.dataset_paths[i]]
        /\ (rpc = "loop" /\ loop_i = MinLen) =>
              /\ ENABLED EvalLoopExit
              /\ ~ENABLED EvalDataset
              /\ ~ENABLED EvalDatasetFails
        /\ rpc = "done" =>
              Len(eval_calls) = MinLen /\ Len(metric_logs) = MinLen
        /\ rfailure \in {"none"} \cup EvalFailures

C12_Witness ==
    /\ rwf = "evaluation"
    /\ rargs.dataset_names = <<"a", "b">>
    /\ rargs.dataset_paths = <<"b.csv">>
    /\ rpc = "done"
    /\ rfailure = "none"
    /\ eval_calls = <<[read |-> "b.csv", prefix |-> "a"]>>
    /\ Len(metric_logs) = 1

(***************************************************************************)
(* Failures while the tracking run is active.                              *)
(***************************************************************************)
\* mlflow.start_run has been called
RunStarted == CallCount("start_run") >= 1

\* the statements of main that follow mlflow.start_run and can raise
FailuresAfterStart == {"log_config", "train", "load", "preprocess", "evaluate", "int"}

(***************************************************************************)
(* C13: in every workflow an exception raised after the tracking run was   *)
(* started leaves main at once: the run has been started and no end_run    *)
(* call has been or will be made, no further step of main is enabled, and  *)
(* an end_run call is only ever made by an invocation in which nothing     *)
(* failed, as its last statement.                                          *)
(***************************************************************************)
C13_FailureLeavesRunOpen ==
    /\ rfailure \in FailuresAfterStart =>
          /\ rpc = "failed"
          /\ UseMlflow(rwf, rargs) => (RunStarted /\ CallCount("end_run") = 0)
          /\ ~ENABLED RunNext
    /\ rfailure # "none" => (rpc = "failed" /\ CallCount("end_run") = 0)
    /\ CallCount("end_run") >= 1 => (rfailure = "none" /\ rpc = "done")
    /\ rpc = "failed" => rfailure # "none"

C13_Witness ==
    /\ rwf = "evaluation"
    /\ rargs.checkpoint = << <<"out">>, <<"checkpoint", "500">>, <<"">> >>
    /\ rfailure = "int"
    /\ rpc = "failed"
    /\ Len(eval_calls) = 1
    /\ mlflow_calls = <<"set_tracking_uri", "start_run">>

====
